---- MODULE Spec2Model ----
(***************************************************************************)
(* Model of the FileReadabilityTool: the utilities of src/utils.py (text   *)
(* extraction, readability scores, grammar check, tone and style) and the  *)
(* Streamlit script of src/main.py (colour helpers and main()).            *)
(*                                                                         *)
(* Strings are sequences of one-character strings, so that strip(),        *)
(* slicing, joining, concatenation and substring tests are computed.       *)
(* External collaborators (PyPDF2, python-docx, textstat, LanguageTool,    *)
(* the transformers pipelines) are black boxes: what they return or raise  *)
(* is an input of the call.                                                *)
(***************************************************************************)
EXTENDS Integers, Sequences, FiniteSets, TLC

VARIABLES pc, session_state, cache, inp, out

vars == <<pc, session_state, cache, inp, out>>

(***************************************************************************)
(* Bounds of the model.                                                    *)
(***************************************************************************)
MaxTextLen == 3
MaxPasteLen == 2
MaxPages == 2
MaxParagraphs == 2
MaxMatches == 2
MaxScore == 80
MaxNegScore == 5
MaxGrade == 20
MaxNegGrade == 3
ScoreDen == 2

(***************************************************************************)
(* Strings.                                                                *)
(***************************************************************************)
Alphabet == {"a", "b", " "}
Whitespace == {" ", "\n"}

SeqsUpTo(S, n) == UNION {[1..k -> S] : k \in 0..n}

Texts == SeqsUpTo(Alphabet, MaxTextLen)

\* str.lstrip() / str.rstrip() / str.strip() with no argument
RECURSIVE lstrip(_)
lstrip(s) == IF s # <<>> /\ Head(s) \in Whitespace THEN lstrip(Tail(s)) ELSE s

RECURSIVE rstrip(_)
rstrip(s) ==
  IF s # <<>> /\ s[Len(s)] \in Whitespace THEN rstrip(SubSeq(s, 1, Len(s) - 1)) ELSE s

strip(s) == rstrip(lstrip(s))

Min(a, b) == IF a < b THEN a ELSE b

\* Python's s[lo:hi] for lo, hi >= 0: the bounds are clamped to len(s)
PySlice(s, lo, hi) ==
  LET l == Min(lo, Len(s))
      h == Min(hi, Len(s))
  IN  IF h <= l THEN <<>> ELSE SubSeq(s, l + 1, h)

\* Python's `sub in s` on strings
Contains(s, sub) ==
  \E i \in 0..(Len(s) - Len(sub)) : SubSeq(s, i + 1, i + Len(sub)) = sub

\* Python's sep.join(parts)
RECURSIVE Join(_, _)
Join(sep, parts) ==
  IF parts = <<>> THEN <<>>
  ELSE IF Len(parts) = 1 THEN parts[1]
  ELSE parts[1] \o sep \o Join(sep, Tail(parts))

(***************************************************************************)
(* Values of the metric mapping: a number (n / ScoreDen; nan is a float    *)
(* too) or a string.                                                       *)
(***************************************************************************)
Num(k) == [kind |-> "num", n |-> k, s |-> <<>>]
IntVal(i) == Num(i * ScoreDen)
NaN == [kind |-> "nan", n |-> 0, s |-> <<>>]
Str(t) == [kind |-> "str", n |-> 0, s |-> t]
NA == Str(<<"N", "/", "A">>)

\* isinstance(score, (int, float))
IsNumber(v) == v.kind \in {"num", "nan"}
\* score >= k and score <= k on Python numbers (every comparison with nan is False)
Ge(v, k) == v.kind = "num" /\ v.n >= k * ScoreDen
Le(v, k) == v.kind = "num" /\ v.n <= k * ScoreDen

(***************************************************************************)
(* main.py: the colour helpers.                                            *)
(***************************************************************************)
\* Faulty variant: the first threshold is strict: score > 60
get_flesch_reading_ease_color_strict(score) ==
  IF ~IsNumber(score) THEN "gray"
  ELSE IF Ge(score, 60) /\ ~Le(score, 60) THEN "green"
  ELSE IF Ge(score, 30) THEN "orange"
  ELSE "red"

get_flesch_reading_ease_color(score) ==
  IF ~IsNumber(score) THEN "gray"
  ELSE IF Ge(score, 60) THEN "green"
  ELSE IF Ge(score, 30) THEN "orange"
  ELSE "red"

get_grade_level_color(score) ==
  IF ~IsNumber(score) THEN "gray"
  ELSE IF Le(score, 8) THEN "green"
  ELSE IF Le(score, 12) THEN "orange"
  ELSE "red"

Th == <<"t", "h">>
College == <<"C", "o", "l", "l", "e", "g", "e">>
Graduate == <<"G", "r", "a", "d", "u", "a", "t", "e">>

get_overall_grade_color(grade_text) ==
  IF \/ Contains(grade_text, <<"5">> \o Th) \/ Contains(grade_text, <<"6">> \o Th)
     \/ Contains(grade_text, <<"7">> \o Th) \/ Contains(grade_text, <<"8">> \o Th)
  THEN "green"
  ELSE IF \/ Contains(grade_text, <<"9">> \o Th)
          \/ Contains(grade_text, <<"1", "0">> \o Th)
          \/ Contains(grade_text, <<"1", "1">> \o Th)
          \/ Contains(grade_text, <<"1", "2">> \o Th)
  THEN "orange"
  ELSE IF Contains(grade_text, College) \/ Contains(grade_text, Graduate)
  THEN "red"
  ELSE "gray"

(***************************************************************************)
(* The Text Standard labels of the statistics library, in the form         *)
(* "<N>th and <N+1>th grade".                                              *)
(***************************************************************************)
DigitChars == <<"0", "1", "2", "3", "4", "5", "6", "7", "8", "9">>

RECURSIVE NatStr(_)
NatStr(n) ==
  IF n < 10 THEN <<DigitChars[n + 1]>> ELSE NatStr(n \div 10) \o <<DigitChars[(n % 10) + 1]>>

IntStr(i) == IF i < 0 THEN <<"-">> \o NatStr(-i) ELSE NatStr(i)

GradeLabel(lower) ==
  IntStr(lower) \o Th \o <<" ", "a", "n", "d", " ">> \o IntStr(lower + 1) \o Th
    \o <<" ", "g", "r", "a", "d", "e">>

LowerGrades == (-MaxNegGrade)..MaxGrade

(***************************************************************************)
(* utils.py: text extraction.  An uploaded file is its declared type, its  *)
(* bytes, and what the document reader does with those bytes: whether      *)
(* opening raises, and for each page or paragraph in order whether reading *)
(* it yields text, yields None (a PDF page) or raises.                     *)
(***************************************************************************)
TextPlain == "text/plain"
ApplicationPdf == "application/pdf"
DocxMime == "application/vnd.openxmlformats-officedocument.wordprocessingml.document"
ImagePng == "image/png"

InvalidByte == "\\xff"
Bytes == Alphabet \cup {InvalidByte}

\* bytes.decode("utf-8", errors="ignore"): the invalid bytes are dropped
decode_utf8_ignore(data) == SelectSeq(data, LAMBDA b : b # InvalidByte)

PartText(t) == [kind |-> "text", text |-> t]
PartNone == [kind |-> "none", text |-> <<>>]
PartRaise == [kind |-> "raise", text |-> <<>>]
PartTexts == {<<>>, <<"a">>, <<" ">>}
PdfParts == {PartText(t) : t \in PartTexts} \cup {PartNone, PartRaise}
DocxParts == {PartText(t) : t \in PartTexts} \cup {PartRaise}

NoReader == [open |-> "none", parts |-> <<>>]
Reader(o, ps) == [open |-> o, parts |-> ps]
PdfReaders ==
  {Reader("raise", <<>>)} \cup {Reader("ok", ps) : ps \in SeqsUpTo(PdfParts, MaxPages)}
DocxReaders ==
  {Reader("raise", <<>>)} \cup {Reader("ok", ps) : ps \in SeqsUpTo(DocxParts, MaxParagraphs)}

File(t, d, r) == [type |-> t, data |-> d, reader |-> r]
Files ==
  {File(t, d, NoReader) : t \in {TextPlain, ImagePng}, d \in SeqsUpTo(Bytes, MaxTextLen)}
    \cup {File(ApplicationPdf, <<>>, r) : r \in PdfReaders}
    \cup {File(DocxMime, <<>>, r) : r \in DocxReaders}

\* The outcome of a call: it returned a value or it raised; calls is the log of
\* the external calls it made.
Returned(v, c) == [outcome |-> "returned", value |-> v, calls |-> c]
Raised(c) == [outcome |-> "raised", value |-> <<>>, calls |-> c]

\* the value of the conditional expression's test, page.extract_text()
Truthy(part) == part.kind = "text" /\ part.text # <<>>

\* The loop over the pages: text += page.extract_text() if page.extract_text() else "".
\* The log holds, for each page reached, how many times extract_text() was called.
RECURSIVE PdfLoop(_, _, _)
PdfLoop(pages, text, calls) ==
  IF pages = <<>> THEN [raised |-> FALSE, text |-> text, calls |-> calls]
  ELSE LET page == Head(pages) IN
    IF page.kind = "raise" THEN [raised |-> TRUE, text |-> text, calls |-> Append(calls, 1)]
    ELSE IF Truthy(page) THEN PdfLoop(Tail(pages), text \o page.text, Append(calls, 2))
    ELSE PdfLoop(Tail(pages), text, Append(calls, 1))

\* Faulty variant: the handler keeps the text read so far
PdfOnErrorKeepsText(text) == text

\* except Exception: text = ""
PdfOnError(text) == <<>>

extract_text_from_pdf(uploaded_pdf_file) ==
  IF uploaded_pdf_file.reader.open = "raise" THEN Returned(PdfOnError(<<>>), <<>>)
  ELSE LET r == PdfLoop(uploaded_pdf_file.reader.parts, <<>>, <<>>) IN
    IF r.raised THEN Returned(PdfOnError(r.text), r.calls) ELSE Returned(r.text, r.calls)

\* The loop over the paragraphs: text += paragraph.text + "\n".
\* The log holds one read per paragraph reached.
RECURSIVE DocxLoop(_, _, _)
DocxLoop(paragraphs, text, calls) ==
  IF paragraphs = <<>> THEN [raised |-> FALSE, text |-> text, calls |-> calls]
  ELSE LET paragraph == Head(paragraphs) IN
    IF paragraph.kind = "raise"
    THEN [raised |-> TRUE, text |-> text, calls |-> Append(calls, 1)]
    ELSE DocxLoop(Tail(paragraphs), text \o paragraph.text \o <<"\n">>, Append(calls, 1))

\* except Exception: text = ""
DocxOnError(text) == <<>>

extract_text_from_docx(uploaded_docx_file) ==
  IF uploaded_docx_file.reader.open = "raise" THEN Returned(DocxOnError(<<>>), <<>>)
  ELSE LET r == DocxLoop(uploaded_docx_file.reader.parts, <<>>, <<>>) IN
    IF r.raised THEN Returned(DocxOnError(r.text), r.calls) ELSE Returned(r.text, r.calls)

extract_text_from_file(uploaded_file) ==
  IF uploaded_file.type = TextPlain
  THEN Returned(decode_utf8_ignore(uploaded_file.data), <<>>)
  ELSE IF uploaded_file.type = ApplicationPdf THEN extract_text_from_pdf(uploaded_file)
  ELSE IF uploaded_file.type = DocxMime THEN extract_text_from_docx(uploaded_file)
  ELSE Returned(<<>>, <<>>)

(***************************************************************************)
(* utils.py: readability scores.  The statistics library is called once    *)
(* per entry of the mapping, in the order the entries are written; what    *)
(* it answers is an input: failAt = k > 0 makes its k-th call raise.       *)
(***************************************************************************)
MetricKeys ==
  <<"Word Count", "Sentence Count", "Character Count", "Flesch Reading Ease",
    "Flesch-Kincaid Grade Level", "Gunning Fog Index", "SMOG Index",
    "ARI (Automated Readability Index)", "Coleman-Liau Index",
    "Dale-Chall Readability Score", "LIX Score", "RIX Score", "Text Standard">>

MetricKeySet == {MetricKeys[i] : i \in DOMAIN MetricKeys}
CountKeys == {"Word Count", "Sentence Count", "Character Count"}

\* the library function behind each key, in call order (Character Count is len(text))
LibFunctions ==
  <<"lexicon_count", "sentence_count", "flesch_reading_ease", "flesch_kincaid_grade",
    "gunning_fog", "smog_index", "automated_readability_index", "coleman_liau_index",
    "dale_chall_readability_score", "lix", "rix", "text_standard">>

Textstat(k, fl, fk, std) == [failAt |-> k, flesch |-> fl, fk |-> fk, std |-> std]

\* what the library answers for the key, when it does not raise
LibValue(lib, key) ==
  CASE key = "Word Count" -> IntVal(1)
    [] key = "Sentence Count" -> IntVal(1)
    [] key = "Flesch Reading Ease" -> lib.flesch
    [] key = "Flesch-Kincaid Grade Level" -> lib.fk
    [] key = "Text Standard" -> lib.std
    [] OTHER -> IntVal(7)

TextstatProfiles ==
  {<<IntVal(75), IntVal(6), Str(GradeLabel(5))>>,
   <<Num(45 * ScoreDen + 1), IntVal(10), Str(GradeLabel(9))>>,
   <<IntVal(10), IntVal(14), Str(GradeLabel(14))>>,
   <<IntVal(-2), IntVal(-1), Str(GradeLabel(-1))>>}

Textstats ==
  {Textstat(k, p[1], p[2], p[3]) : k \in 0..Len(LibFunctions), p \in TextstatProfiles}

\* Faulty variant: the counts are the sentinel too
EmptyScoresAllNA == [key \in MetricKeySet |-> NA]

\* the mapping returned for empty or whitespace-only text
EmptyScores == [key \in MetricKeySet |-> IF key \in CountKeys THEN IntVal(0) ELSE NA]

\* Faulty variant: the length of the stripped text
CharacterCountStripped(text) == IntVal(Len(strip(text)))

\* "Character Count": len(text)
CharacterCount(text) == IntVal(Len(text))

calculate_readability_scores(text, lib) ==
  IF strip(text) = <<>> THEN Returned(EmptyScores, <<>>)
  ELSE IF lib.failAt # 0 THEN Raised(SubSeq(LibFunctions, 1, lib.failAt))
  ELSE Returned([key \in MetricKeySet |->
                   IF key = "Character Count" THEN CharacterCount(text)
                   ELSE LibValue(lib, key)],
                LibFunctions)

(***************************************************************************)
(* utils.py: grammar check.  The engine is an input: whether creating the  *)
(* LanguageTool handle raises (it is created only when st.cache_resource   *)
(* holds none), whether check() raises, and the matches it returns.        *)
(***************************************************************************)
Match(off, len, repl) ==
  [offset |-> off, errorLength |-> len, replacements |-> repl,
   message |-> <<"m">>, ruleId |-> <<"R">>, ruleIssueType |-> <<"t">>]

MatchSamples ==
  {Match(0, 1, <<>>),
   Match(1, 1, << <<"a">> >>),
   Match(0, 2, << <<"N", "/", "A">> >>),
   Match(1, 2, << <<"a">>, <<"b">> >>)}

Engine(i, c, ms) == [init |-> i, check |-> c, matches |-> ms]
Engines ==
  {Engine("raise", "ok", <<>>), Engine("ok", "raise", <<>>)}
    \cup {Engine("ok", "ok", ms) : ms \in SeqsUpTo(MatchSamples, MaxMatches)}

IssueKeys ==
  {"Context", "Message", "Category", "Rule Name", "Suggested Correction", "Offset", "Length"}

\* ", ".join(match.replacements) if match.replacements else "N/A"
SuggestedCorrection(match) ==
  IF match.replacements # <<>> THEN Str(Join(<<",", " ">>, match.replacements)) ELSE NA

\* Faulty variant: the slice ends at errorLength: text[match.offset:match.errorLength]
ContextEndsAtLength(text, match) == Str(PySlice(text, match.offset, match.errorLength))

\* text[match.offset:match.offset + match.errorLength]
Context(text, match) == Str(PySlice(text, match.offset, match.offset + match.errorLength))

\* the record appended for one match
Issue(text, match) ==
  [key \in IssueKeys |->
     CASE key = "Context" -> Context(text, match)
       [] key = "Message" -> Str(match.message)
       [] key = "Category" -> Str(match.ruleId)
       [] key = "Rule Name" -> Str(match.ruleIssueType)
       [] key = "Suggested Correction" -> SuggestedCorrection(match)
       [] key = "Offset" -> IntVal(match.offset)
       [] key = "Length" -> IntVal(match.errorLength)]

\* for match in matches: grammar_errors.append({...})
GrammarErrors(text, matches) == [i \in 1..Len(matches) |-> Issue(text, matches[i])]

\* st.cache_resource: the resource is created when none is cached, and a
\* creation that raises caches nothing
GetResource(cached, init) ==
  IF cached THEN [raised |-> FALSE, cached |-> TRUE, calls |-> <<>>]
  ELSE IF init = "raise" THEN [raised |-> TRUE, cached |-> FALSE, calls |-> <<"init">>]
  ELSE [raised |-> FALSE, cached |-> TRUE, calls |-> <<"init">>]

get_language_tool(cached, engine) == GetResource(cached, engine.init)

\* the result, and whether the handle is cached afterwards
check_grammar(text, cached, engine) ==
  IF strip(text) = <<>> THEN [res |-> Returned(<<>>, <<>>), cached |-> cached]
  ELSE LET tool == get_language_tool(cached, engine) IN
    IF tool.raised THEN [res |-> Raised(tool.calls), cached |-> tool.cached]
    ELSE IF engine.check = "raise"
    THEN [res |-> Raised(Append(tool.calls, "check")), cached |-> tool.cached]
    ELSE [res |-> Returned(GrammarErrors(text, engine.matches), Append(tool.calls, "check")),
          cached |-> tool.cached]

(***************************************************************************)
(* utils.py: tone and style.  The pipeline is an input: whether loading it *)
(* raises, and whether calling it raises, returns an empty list or returns *)
(* a list whose first element is the result (its label here spells the     *)
(* pipeline's answer and the text the pipeline was given).                 *)
(***************************************************************************)
max_length == 500

Pipeline(i, c, l) == [init |-> i, call |-> c, label |-> l]
SentimentPipelines ==
  {Pipeline("raise", "ok", <<"P">>), Pipeline("ok", "raise", <<"P">>),
   Pipeline("ok", "empty", <<"P">>), Pipeline("ok", "ok", <<"P">>),
   Pipeline("ok", "ok", <<"N">>)}
StylePipelines ==
  {Pipeline("raise", "ok", <<"F">>), Pipeline("ok", "raise", <<"F">>),
   Pipeline("ok", "empty", <<"F">>), Pipeline("ok", "ok", <<"F">>),
   Pipeline("ok", "ok", <<"I">>)}

Label(l, sc) == [label |-> l, score |-> sc]
LabelNA == Label(NA, NA)
LabelError == Label(Str(<<"E", "r", "r", "o", "r">>), NA)

\* the body shared by analyze_tone and analyze_style
Classify(text, cached, pipe) ==
  IF strip(text) = <<>> THEN [res |-> Returned(LabelNA, <<>>), cached |-> cached]
  ELSE LET truncated_text == PySlice(text, 0, max_length)
           handle == GetResource(cached, pipe.init)
       IN IF handle.raised THEN [res |-> Raised(handle.calls), cached |-> handle.cached]
          ELSE IF pipe.call \in {"raise", "empty"}
          THEN [res |-> Returned(LabelError, Append(handle.calls, "call")),
                cached |-> handle.cached]
          ELSE [res |-> Returned(Label(Str(pipe.label \o truncated_text), IntVal(1)),
                                 Append(handle.calls, "call")),
                cached |-> handle.cached]

analyze_tone(text, cached, nlp_pipeline) == Classify(text, cached, nlp_pipeline)

analyze_style(text, cached, style_pipeline) == Classify(text, cached, style_pipeline)

(***************************************************************************)
(* The utilities and the colour helpers called on their own: the initial   *)
(* state holds the call (the function, its arguments, what the external    *)
(* collaborators will do), the action performs it.                         *)
(***************************************************************************)
Resources == {"language_tool", "sentiment", "style"}
ColdCache == [r \in Resources |-> FALSE]
CacheWith(r, b) == [ColdCache EXCEPT ![r] = b]

NoCall == [op |-> "none"]
NoOut == [outcome |-> "none", value |-> <<>>, calls |-> <<>>]

ScoreValues ==
  {Num(k) : k \in (-(MaxNegScore * ScoreDen))..(MaxScore * ScoreDen)}
    \cup {NaN, NA, Str(<<>>)}

GradeTexts == {GradeLabel(n) : n \in LowerGrades} \cup {NA.s, College, Graduate, <<>>}

UtilInit ==
  /\ pc = "call"
  /\ session_state = <<>>
  /\ out = NoOut
  /\ \/ /\ inp \in {[op |-> "extract_text_from_file", file |-> f] : f \in Files}
        /\ cache = ColdCache
     \/ /\ inp \in {[op |-> "calculate_readability_scores", text |-> t, lib |-> l] :
                      t \in Texts, l \in Textstats}
        /\ cache = ColdCache
     \/ /\ inp \in {[op |-> "check_grammar", text |-> t, engine |-> e] :
                      t \in Texts, e \in Engines}
        /\ cache \in {CacheWith("language_tool", b) : b \in BOOLEAN}
     \/ /\ inp \in {[op |-> "analyze_tone", text |-> t, pipe |-> p] :
                      t \in Texts, p \in SentimentPipelines}
        /\ cache \in {CacheWith("sentiment", b) : b \in BOOLEAN}
     \/ /\ inp \in {[op |-> "analyze_style", text |-> t, pipe |-> p] :
                      t \in Texts, p \in StylePipelines}
        /\ cache \in {CacheWith("style", b) : b \in BOOLEAN}
     \/ /\ inp \in {[op |-> "get_flesch_reading_ease_color", score |-> v] : v \in ScoreValues}
        /\ cache = ColdCache
     \/ /\ inp \in {[op |-> "get_grade_level_color", score |-> v] : v \in ScoreValues}
        /\ cache = ColdCache
     \/ /\ inp \in {[op |-> "get_overall_grade_color", grade_text |-> g] : g \in GradeTexts}
        /\ cache = ColdCache

CallExtract ==
  /\ pc = "call" /\ inp.op = "extract_text_from_file"
  /\ out' = extract_text_from_file(inp.file)
  /\ pc' = "done"
  /\ UNCHANGED <<session_state, cache, inp>>

CallScores ==
  /\ pc = "call" /\ inp.op = "calculate_readability_scores"
  /\ out' = calculate_readability_scores(inp.text, inp.lib)
  /\ pc' = "done"
  /\ UNCHANGED <<session_state, cache, inp>>

CallGrammar ==
  /\ pc = "call" /\ inp.op = "check_grammar"
  /\ LET r == check_grammar(inp.text, cache["language_tool"], inp.engine) IN
       /\ out' = r.res
       /\ cache' = [cache EXCEPT !["language_tool"] = r.cached]
  /\ pc' = "done"
  /\ UNCHANGED <<session_state, inp>>

CallTone ==
  /\ pc = "call" /\ inp.op = "analyze_tone"
  /\ LET r == analyze_tone(inp.text, cache["sentiment"], inp.pipe) IN
       /\ out' = r.res
       /\ cache' = [cache EXCEPT !["sentiment"] = r.cached]
  /\ pc' = "done"
  /\ UNCHANGED <<session_state, inp>>

CallStyle ==
  /\ pc = "call" /\ inp.op = "analyze_style"
  /\ LET r == analyze_style(inp.text, cache["style"], inp.pipe) IN
       /\ out' = r.res
       /\ cache' = [cache EXCEPT !["style"] = r.cached]
  /\ pc' = "done"
  /\ UNCHANGED <<session_state, inp>>

CallFleschColor ==
  /\ pc = "call" /\ inp.op = "get_flesch_reading_ease_color"
  /\ out' = Returned(get_flesch_reading_ease_color(inp.score), <<>>)
  /\ pc' = "done"
  /\ UNCHANGED <<session_state, cache, inp>>

CallGradeColor ==
  /\ pc = "call" /\ inp.op = "get_grade_level_color"
  /\ out' = Returned(get_grade_level_color(inp.score), <<>>)
  /\ pc' = "done"
  /\ UNCHANGED <<session_state, cache, inp>>

CallOverallColor ==
  /\ pc = "call" /\ inp.op = "get_overall_grade_color"
  /\ out' = Returned(get_overall_grade_color(inp.grade_text), <<>>)
  /\ pc' = "done"
  /\ UNCHANGED <<session_state, cache, inp>>

UtilNext ==
  \/ CallExtract
  \/ CallScores
  \/ CallGrammar
  \/ CallTone
  \/ CallStyle
  \/ CallFleschColor
  \/ CallGradeColor
  \/ CallOverallColor

UtilSpec == UtilInit /\ [][UtilNext]_vars

(***************************************************************************)
(* main.py: main().  Every user interaction reruns the script from the     *)
(* top; st.session_state and the st.cache_resource handles outlive a       *)
(* rerun, the script's local variables do not.  An exception that escapes  *)
(* main() ends the rerun where it was raised.                              *)
(***************************************************************************)
PastedKey == "pasted_text_content"

NoFile == File("none", <<>>, NoReader)

UploadSamples ==
  {File(TextPlain, <<"a", InvalidByte, "b">>, NoReader),
   File(TextPlain, <<" ", InvalidByte>>, NoReader),
   File(TextPlain, <<>>, NoReader),
   File(ImagePng, <<"a", "b">>, NoReader),
   File(ApplicationPdf, <<>>, Reader("raise", <<>>)),
   File(ApplicationPdf, <<>>, Reader("ok", <<PartText(<<"a">>), PartRaise>>)),
   File(ApplicationPdf, <<>>, Reader("ok", <<PartText(<<"a">>), PartNone>>)),
   File(ApplicationPdf, <<>>, Reader("ok", <<PartNone>>)),
   File(DocxMime, <<>>, Reader("raise", <<>>)),
   File(DocxMime, <<>>, Reader("ok", <<PartText(<<"a">>), PartRaise>>)),
   File(DocxMime, <<>>, Reader("ok", <<PartText(<<"a">>)>>)),
   File(DocxMime, <<>>, Reader("ok", <<PartText(<<>>)>>))}

Pastes == SeqsUpTo(Alphabet, MaxPasteLen)

\* What the collaborators may do during a rerun.
MainTextstats ==
  {Textstat(0, IntVal(75), IntVal(6), Str(GradeLabel(5))),
   Textstat(0, IntVal(10), IntVal(14), Str(GradeLabel(14))),
   Textstat(1, IntVal(75), IntVal(6), Str(GradeLabel(5))),
   Textstat(Len(LibFunctions), IntVal(75), IntVal(6), Str(GradeLabel(5)))}
MainEngines ==
  {Engine("raise", "ok", <<>>),
   Engine("ok", "raise", <<>>),
   Engine("ok", "ok", <<>>),
   Engine("ok", "ok", <<Match(0, 1, << <<"a">> >>)>>)}

\* f"{value:.2f}": a number is formatted, a string raises ValueError
CanFormat2f(v) == IsNumber(v)

\* Faulty variant: the analysis section runs on every rerun
ShouldAnalyzeAlways(text) == TRUE

\* if text_content_to_analyze.strip():
ShouldAnalyze(text) == strip(text) # <<>>

MainOut(text) ==
  [outcome |-> "returned", raised_in |-> "none", text |-> text, called |-> <<>>,
   scores |-> <<>>, formatted |-> <<>>, colors |-> <<>>,
   grammar_shown |-> FALSE, grammar_errors |-> <<>>]

\* lines 100-174: the analysis and display section
Analyze(o, cached, lib, engine) ==
  LET sc == calculate_readability_scores(o.text, lib)
      o1 == [o EXCEPT !.called = Append(@, "calculate_readability_scores")]
  IN
  IF sc.outcome = "raised"
  THEN [out |-> [o1 EXCEPT !.outcome = "raised", !.raised_in = "calculate_readability_scores"],
        cached |-> cached]
  ELSE
  LET flesch_score == sc.value["Flesch Reading Ease"]
      fk_grade == sc.value["Flesch-Kincaid Grade Level"]
      text_standard == sc.value["Text Standard"]
      o2 == [o1 EXCEPT !.scores = sc.value,
                       !.formatted = <<flesch_score>>,
                       !.colors = <<get_flesch_reading_ease_color(flesch_score)>>]
      o3 == [o2 EXCEPT !.formatted = Append(@, fk_grade),
                       !.colors = Append(@, get_grade_level_color(fk_grade))]
  IN
  IF ~CanFormat2f(flesch_score)
  THEN [out |-> [o2 EXCEPT !.outcome = "raised", !.raised_in = "format"], cached |-> cached]
  ELSE IF ~CanFormat2f(fk_grade)
  THEN [out |-> [o3 EXCEPT !.outcome = "raised", !.raised_in = "format"], cached |-> cached]
  ELSE IF text_standard.kind # "str"
  THEN [out |-> [o3 EXCEPT !.outcome = "raised", !.raised_in = "get_overall_grade_color"],
        cached |-> cached]
  ELSE
  LET o4 == [o3 EXCEPT !.colors = Append(@, get_overall_grade_color(text_standard.s)),
                       !.called = Append(@, "check_grammar")]
      g == check_grammar(o.text, cached, engine)
  IN
  IF g.res.outcome = "raised"
  THEN [out |-> [o4 EXCEPT !.outcome = "raised", !.raised_in = "check_grammar"],
        cached |-> g.cached]
  ELSE [out |-> [o4 EXCEPT !.grammar_shown = TRUE, !.grammar_errors = g.res.value],
        cached |-> g.cached]

main(ss, cached, uploaded_file, pasted_text, lib, engine) ==
  LET ss0 == IF PastedKey \in DOMAIN ss THEN ss ELSE [k \in {PastedKey} |-> <<>>]
      ext == extract_text_from_file(uploaded_file)
      text_content_to_analyze ==
        IF uploaded_file # NoFile THEN ext.value
        ELSE IF strip(pasted_text) # <<>> THEN pasted_text
        ELSE <<>>
      ss1 ==
        IF uploaded_file # NoFile THEN [ss0 EXCEPT ![PastedKey] = <<>>]
        ELSE IF strip(pasted_text) # <<>> THEN [ss0 EXCEPT ![PastedKey] = pasted_text]
        ELSE ss0
      o == IF uploaded_file # NoFile
           THEN [MainOut(text_content_to_analyze) EXCEPT !.called = <<"extract_text_from_file">>]
           ELSE MainOut(text_content_to_analyze)
  IN
  IF uploaded_file # NoFile /\ ext.outcome = "raised"
  THEN [out |-> [MainOut(<<>>) EXCEPT !.outcome = "raised",
                                      !.raised_in = "extract_text_from_file",
                                      !.called = <<"extract_text_from_file">>],
        ss |-> ss0, cached |-> cached]
  ELSE IF ShouldAnalyze(text_content_to_analyze)
  THEN LET a == Analyze(o, cached, lib, engine) IN
       [out |-> a.out, ss |-> ss1, cached |-> a.cached]
  ELSE [out |-> o, ss |-> ss1, cached |-> cached]

Init ==
  /\ pc = "idle"
  /\ session_state = <<>>
  /\ cache = ColdCache
  /\ inp = NoCall
  /\ out = NoOut

\* The user uploads or removes a file, or edits the text area: the script reruns.
\* On the first run of a session no file is uploaded yet and the text area
\* holds its default, the session's pasted_text_content.
Interact ==
  /\ pc = "idle"
  /\ \E f \in UploadSamples \cup {NoFile}, t \in Pastes :
       /\ PastedKey \notin DOMAIN session_state => f = NoFile /\ t = <<>>
       /\ inp' = [op |-> "main", uploaded_file |-> f, pasted_text |-> t]
  /\ pc' = "running"
  /\ UNCHANGED <<session_state, cache, out>>

RunMain ==
  /\ pc = "running"
  /\ \E lib \in MainTextstats, engine \in MainEngines :
       LET r == main(session_state, cache["language_tool"], inp.uploaded_file,
                     inp.pasted_text, lib, engine)
       IN /\ out' = r.out
          /\ session_state' = r.ss
          /\ cache' = [cache EXCEPT !["language_tool"] = r.cached]
  /\ pc' = "ran"
  /\ UNCHANGED inp

\* main() is over: its local variables are gone, the session waits for the user
ScriptEnds ==
  /\ pc = "ran"
  /\ pc' = "idle"
  /\ inp' = NoCall
  /\ out' = NoOut
  /\ UNCHANGED <<session_state, cache>>

Next ==
  \/ Interact
  \/ RunMain
  \/ ScriptEnds

Spec == Init /\ [][Next]_vars

(***************************************************************************)
(* The claims.                                                             *)
(***************************************************************************)
Done(op) == pc = "done" /\ inp.op = op
IsBlank(text) == \A i \in DOMAIN text : text[i] \in Whitespace

\* C1 (as stated): for every input of length >= 1, whitespace-only inputs
\* included, the Character Count of the returned mapping is the length of the input.
C1_CharCountIsLengthOfNonEmpty ==
  Done("calculate_readability_scores") /\ out.outcome = "returned" /\ Len(inp.text) >= 1
    => out.value["Character Count"] = Num(Len(inp.text) * ScoreDen)

\* C1 (amended): every mapping returned for an input with at least one
\* non-whitespace character has Character Count = the length of the input,
\* surrounding whitespace included; for a whitespace-only input it is 0.
C1_CharCountIsLengthOfNonBlank ==
  Done("calculate_readability_scores") /\ out.outcome = "returned"
    => out.value["Character Count"] =
         IF IsBlank(inp.text) THEN Num(0) ELSE Num(Len(inp.text) * ScoreDen)

\* C1 (witness): a text with surrounding whitespace is counted in full
C1_Witness ==
  /\ Done("calculate_readability_scores")
  /\ inp.text = <<" ", "a", " ">>
  /\ out.outcome = "returned"
  /\ out.value["Character Count"] = Num(3 * ScoreDen)

\* C2: for empty or whitespace-only text the call returns, without any library
\* call, the 13 keys with the three counts 0 and the ten other keys "N/A"; every
\* mapping returned for another text has exactly the same 13 keys.
C2_EmptyInputShape ==
  Done("calculate_readability_scores") =>
    /\ IsBlank(inp.text) =>
         /\ out.outcome = "returned"
         /\ out.calls = <<>>
         /\ DOMAIN out.value = MetricKeySet
         /\ Cardinality(DOMAIN out.value) = 13
         /\ \A key \in DOMAIN out.value :
              out.value[key] = IF key \in CountKeys THEN Num(0) ELSE Str(<<"N", "/", "A">>)
         /\ Cardinality({key \in DOMAIN out.value : out.value[key].kind = "str"}) = 10
    /\ ~IsBlank(inp.text) /\ out.outcome = "returned" =>
         /\ DOMAIN out.value = MetricKeySet
         /\ Cardinality(DOMAIN out.value) = 13

\* C2 (witness): a whitespace-only text got the zero / "N/A" mapping
C2_Witness ==
  /\ Done("calculate_readability_scores")
  /\ inp.text = <<" ", " ">>
  /\ out.outcome = "returned"
  /\ out.value["Word Count"] = Num(0)
  /\ out.value["Text Standard"] = NA

ReaderRaises(reader) ==
  reader.open = "raise" \/ \E i \in DOMAIN reader.parts : reader.parts[i].kind = "raise"

IsString(v) == v \in Seq(Alphabet \cup {"\n"})

\* C3: extract_text_from_file always returns a string and never raises; for a
\* type that is not plain text, PDF or DOCX the string is empty whatever the
\* bytes; for a PDF or DOCX whose reader raises at any point, also after pages
\* or paragraphs were read, the string is empty.
C3_ExtractNeverRaises ==
  Done("extract_text_from_file") =>
    /\ out.outcome = "returned"
    /\ IsString(out.value)
    /\ inp.file.type \notin {TextPlain, ApplicationPdf, DocxMime} => out.value = <<>>
    /\ inp.file.type \in {ApplicationPdf, DocxMime} /\ ReaderRaises(inp.file.reader)
         => out.value = <<>>

\* C3 (witness): a PDF whose second page raises after the first was read gives ""
C3_Witness ==
  /\ Done("extract_text_from_file")
  /\ inp.file.type = ApplicationPdf
  /\ inp.file.reader.open = "ok"
  /\ Len(inp.file.reader.parts) = 2
  /\ inp.file.reader.parts[1] = PartText(<<"a">>)
  /\ inp.file.reader.parts[2].kind = "raise"
  /\ out = Returned(<<>>, <<2, 1>>)

\* the characters of text at positions off+1 .. off+len that exist
SliceAt(text, off, len) ==
  LET idx == {i \in 1..Len(text) : off < i /\ i <= off + len} IN
    [j \in 1..Cardinality(idx) |-> text[off + j]]

RecordsFollowMatches(text, matches, issues) ==
  /\ Len(issues) = Len(matches)
  /\ \A i \in DOMAIN matches :
       /\ issues[i]["Offset"] = Num(matches[i].offset * ScoreDen)
       /\ issues[i]["Length"] = Num(matches[i].errorLength * ScoreDen)
       /\ issues[i]["Context"] = Str(SliceAt(text, matches[i].offset, matches[i].errorLength))

\* C4 (as stated): check_grammar returns an empty sequence for blank text;
\* otherwise one record per match, in the engine's order, the i-th with the
\* i-th match's offset and length, the slice of the text at them as Context,
\* and Suggested Correction "N/A" exactly when the match has no replacements.
C4_SuggestionNAExactlyWhenNone ==
  Done("check_grammar") =>
    /\ IsBlank(inp.text) => out = Returned(<<>>, <<>>)
    /\ ~IsBlank(inp.text) /\ out.outcome = "returned" =>
         /\ RecordsFollowMatches(inp.text, inp.engine.matches, out.value)
         /\ \A i \in DOMAIN out.value :
              out.value[i]["Suggested Correction"] = NA
                <=> inp.engine.matches[i].replacements = <<>>

\* C4 (amended): as stated, except that Suggested Correction is "N/A" whenever
\* the match has no replacements and is otherwise the replacements joined by
\* ", " (which spells "N/A" when the only replacement is the string "N/A").
C4_RecordsFollowMatches ==
  Done("check_grammar") =>
    /\ IsBlank(inp.text) => out = Returned(<<>>, <<>>)
    /\ ~IsBlank(inp.text) /\ out.outcome = "returned" =>
         /\ RecordsFollowMatches(inp.text, inp.engine.matches, out.value)
         /\ \A i \in DOMAIN out.value :
              LET repl == inp.engine.matches[i].replacements IN
                out.value[i]["Suggested Correction"] =
                  IF repl = <<>> THEN NA
                  ELSE IF Len(repl) = 1 THEN Str(repl[1])
                  ELSE Str(repl[1] \o <<",", " ">> \o repl[2])

\* C4 (witness): two matches, one without replacements, gave two records in order
C4_Witness ==
  /\ Done("check_grammar")
  /\ inp.text = <<"a", "b", " ">>
  /\ out.outcome = "returned"
  /\ Len(out.value) = 2
  /\ out.value[1]["Suggested Correction"] = NA
  /\ out.value[1]["Context"] = Str(<<"a">>)
  /\ out.value[2]["Context"] = Str(<<"b", " ">>)
  /\ out.value[2]["Suggested Correction"] = Str(<<"a", ",", " ", "b">>)

Count(calls, name) == Cardinality({i \in DOMAIN calls : calls[i] = name})

\* C5: no external call is repeated within one analysis: the engine's check
\* runs once on the text, each readability metric function once, and each
\* PDF page's text extraction and each DOCX paragraph read once.
C5_EveryExternalCallOnce ==
  /\ Done("extract_text_from_file") /\ inp.file.type \in {ApplicationPdf, DocxMime}
       => \A i \in DOMAIN out.calls : out.calls[i] = 1
  /\ Done("check_grammar") /\ out.outcome = "returned" /\ ~IsBlank(inp.text)
       => Count(out.calls, "check") = 1
  /\ Done("calculate_readability_scores") /\ out.outcome = "returned" /\ ~IsBlank(inp.text)
       => \A i \in DOMAIN LibFunctions : Count(out.calls, LibFunctions[i]) = 1

\* the call in progress is one during which an external collaborator raises
ExternalRaises ==
  \/ inp.op = "extract_text_from_file" /\ ReaderRaises(inp.file.reader)
  \/ inp.op = "calculate_readability_scores" /\ ~IsBlank(inp.text) /\ inp.lib.failAt # 0
  \/ /\ inp.op = "check_grammar" /\ ~IsBlank(inp.text)
     /\ "raise" \in {inp.engine.init, inp.engine.check}
  \/ /\ inp.op \in {"analyze_tone", "analyze_style"} /\ ~IsBlank(inp.text)
     /\ "raise" \in {inp.pipe.init, inp.pipe.call}

\* C6: whenever an external call raises, the calling operation returns an
\* empty or sentinel result ("", "N/A", the "Error" label) and does not
\* propagate the exception.
C6_NoExternalFailureIsFatal ==
  pc = "done" /\ ExternalRaises => out.outcome = "returned"

\* a rerun of main() has just ended; what it called; the upload could not be read
Ran == pc = "ran" /\ inp.op = "main"
Called(name) == \E i \in DOMAIN out.called : out.called[i] = name

ExtractionFailed ==
  /\ inp.uploaded_file # NoFile
  /\ \/ inp.uploaded_file.type \notin {TextPlain, ApplicationPdf, DocxMime}
     \/ ReaderRaises(inp.uploaded_file.reader)
  /\ out.text = <<>>

\* C7 (as stated): when the extraction of an uploaded file fails or its type
\* is unsupported (the extracted text is empty), main() still runs the analysis
\* and reports the zero / "N/A" readability metrics and an empty list of
\* grammar issues.
C7_EmptyExtractionIsAnalysed ==
  Ran /\ ExtractionFailed =>
    /\ Called("calculate_readability_scores")
    /\ out.scores = EmptyScores
    /\ Called("check_grammar")
    /\ out.grammar_shown
    /\ out.grammar_errors = <<>>

\* C7 (amended): when the extraction of an uploaded file fails or its type is
\* unsupported (the extracted text is empty), main() skips the
\* analysis: the rerun ends normally having called neither
\* calculate_readability_scores nor check_grammar, and it reports no metrics
\* and no grammar result.
C7_EmptyExtractionSkipsAnalysis ==
  Ran /\ ExtractionFailed =>
    /\ out.outcome = "returned"
    /\ out.called = <<"extract_text_from_file">>
    /\ out.scores = <<>>
    /\ out.formatted = <<>>
    /\ out.colors = <<>>
    /\ ~out.grammar_shown

\* C7 (witness): a rerun on a PDF whose reader raised ended without analysis
C7_Witness ==
  /\ Ran
  /\ inp.uploaded_file.type = ApplicationPdf
  /\ ReaderRaises(inp.uploaded_file.reader)
  /\ Len(inp.uploaded_file.reader.parts) = 2
  /\ out.text = <<>>
  /\ out.outcome = "returned"
  /\ ~Called("calculate_readability_scores")

Indicators == {"green", "orange", "red", "gray"}

\* C8: the two score colour functions give every input exactly one
\* indicator: Flesch Reading Ease >= 60 green, from 30 up to 60 orange, < 30
\* red; grade level <= 8 green, above 8 up to 12 orange, > 12 red; every
\* non-numeric value gray.  In particular 75/45/10 and 6/10/14 give
\* green/orange/red.
C8_ColoursFollowThresholds ==
  /\ Done("get_flesch_reading_ease_color") =>
       LET v == inp.score  c == out.value IN
         /\ out.outcome = "returned" /\ c \in Indicators
         /\ v.kind = "num" /\ v.n >= 60 * ScoreDen => c = "green"
         /\ v.kind = "num" /\ 30 * ScoreDen <= v.n /\ v.n < 60 * ScoreDen => c = "orange"
         /\ v.kind = "num" /\ v.n < 30 * ScoreDen => c = "red"
         /\ v.kind = "str" => c = "gray"
         /\ v.kind = "num" /\ v.n = 75 * ScoreDen => c = "green"
         /\ v.kind = "num" /\ v.n = 45 * ScoreDen => c = "orange"
         /\ v.kind = "num" /\ v.n = 10 * ScoreDen => c = "red"
  /\ Done("get_grade_level_color") =>
       LET v == inp.score  c == out.value IN
         /\ out.outcome = "returned" /\ c \in Indicators
         /\ v.kind = "num" /\ v.n <= 8 * ScoreDen => c = "green"
         /\ v.kind = "num" /\ 8 * ScoreDen < v.n /\ v.n <= 12 * ScoreDen => c = "orange"
         /\ v.kind = "num" /\ v.n > 12 * ScoreDen => c = "red"
         /\ v.kind = "str" => c = "gray"
         /\ v.kind = "num" /\ v.n = 6 * ScoreDen => c = "green"
         /\ v.kind = "num" /\ v.n = 10 * ScoreDen => c = "orange"
         /\ v.kind = "num" /\ v.n = 14 * ScoreDen => c = "red"

\* C8 (witness): the score 60 itself is green
C8_Witness ==
  /\ Done("get_flesch_reading_ease_color")
  /\ inp.score = Num(60 * ScoreDen)
  /\ out.value = "green"

\* C9: in every rerun of main(): with an uploaded file the text analysed is
\* the Extractor's output whatever was pasted, and pasted_text_content is
\* reset to ""; with no file and a non-blank pasted text the text analysed is
\* the pasted text, and it is stored in pasted_text_content;
\* calculate_readability_scores and check_grammar are called if and only if
\* the chosen text is non-blank, so the "N/A" sentinel is never formatted as
\* a number.
C9_RerunChoosesTextAndAnalysesNonBlank ==
  Ran =>
    /\ inp.uploaded_file # NoFile =>
         /\ out.text = extract_text_from_file(inp.uploaded_file).value
         /\ session_state[PastedKey] = <<>>
    /\ inp.uploaded_file = NoFile /\ ~IsBlank(inp.pasted_text) =>
         /\ out.text = inp.pasted_text
         /\ session_state[PastedKey] = inp.pasted_text
    /\ Called("calculate_readability_scores") <=> ~IsBlank(out.text)
    /\ Called("check_grammar") <=> ~IsBlank(out.text)
    /\ \A i \in DOMAIN out.formatted : out.formatted[i] # NA

\* C10: for every label "<N>th and <N+1>th grade", get_overall_grade_color
\* never gives green when both grades are above 12, and never gives orange or
\* red when both grades are below 5.
C10_OverallColourFollowsGradePolicy ==
  Done("get_overall_grade_color") =>
    \A n \in LowerGrades :
      inp.grade_text = GradeLabel(n) =>
        /\ n > 12 => out.value # "green"
        /\ n + 1 < 5 => out.value \notin {"orange", "red"}

====
